---- MODULE Spec2Model ----
(***************************************************************************)
(* A state-machine model of tracker.py: fetch the ISS elements once, poll  *)
(* the position in a loop (append to `positions`, overwrite track.kml,     *)
(* sleep), and on interpreter exit run the callbacks registered with       *)
(* atexit (write_tour_kml, write_path_kml, launch_earth).                  *)
(*                                                                         *)
(* Text lines are sequences of tokens: " " is one whitespace character,    *)
(* ISS_NAME is the literal text "ISS (ZARYA)", any other token is a run of *)
(* non-blank text that does not contain that literal.                      *)
(***************************************************************************)
EXTENDS Integers, Sequences, FiniteSets, TLC

\* ------------------------------------------------------------- bounds
\* longest elements feed (in lines) the data source answers with
MaxFeedLen == 4
\* most samples one run accumulates before only a stop is possible
MaxTicks == 3

\* ---------------------------------------------------- program constants
ISS_NAME == "ISS (ZARYA)"
\* nl.link.refreshinterval
REFRESH_INTERVAL == 5
\* time.sleep(5)
SLEEP_SECONDS == 5
\* LookAt(range=700_000, tilt=0, heading=0)
LOOKAT_RANGE == 700000
LOOKAT_TILT == 0
LOOKAT_HEADING == 0
\* newgxflyto(gxduration=2.0), newgxwait(gxduration=1.0)
FLYTO_DURATION == 2
WAIT_DURATION == 1

\* ------------------------------------------------------------- inputs
\* lines the elements feed is made of
Lines ==
    { <<ISS_NAME>>,
      <<" ", ISS_NAME>>,
      <<ISS_NAME, " ", "DEB">>,
      <<"1", " ">>,
      <<"2">> }

RECURSIVE SeqsUpTo(_, _)
SeqsUpTo(S, n) ==
    IF n = 0 THEN { <<>> }
    ELSE LET shorter == SeqsUpTo(S, n - 1)
         IN  shorter \cup { Append(s, x) : s \in { t \in shorter : Len(t) = n - 1 }, x \in S }

Feeds == SeqsUpTo(Lines, MaxFeedLen)

\* what requests.get(TLE_URL) can answer: a text body, or a network error
Responses ==
    { [kind |-> "text", lines |-> f] : f \in Feeds }
        \cup { [kind |-> "error", lines |-> <<>>] }

Consumed == [kind |-> "consumed", lines |-> <<>>]

\* (lat, lon, alt_km) triples the position resolver can return. Degrees are
\* counted in units of 0.00001 degree and kilometres in units of 0.1 km, so
\* that the console line, which keeps 4 decimals of a degree and whole
\* kilometres, drops a digit: 10.12343 N 20.56787 E 400.4 km, and
\* 30.98766 S 45.12342 E 410.6 km. No value lies halfway between two
\* printed values.
Samples == { <<1012343, 2056787, 4004>>, <<-3098766, 4512342, 4106>> }

\* --------------------------------------------------- pure functions
RECURSIVE lstrip(_)
lstrip(s) ==
    IF s # <<>> /\ Head(s) = " " THEN lstrip(Tail(s)) ELSE s

RECURSIVE rstrip(_)
rstrip(s) ==
    IF s # <<>> /\ s[Len(s)] = " " THEN rstrip(SubSeq(s, 1, Len(s) - 1)) ELSE s

\* str.strip()
strip(s) == rstrip(lstrip(s))

\* str.startswith("ISS (ZARYA)")
startswith(s, name) == s # <<>> /\ Head(s) = name

\* the test of line 26
IsMatch(line) == startswith(strip(line), ISS_NAME)

\* variant of the loop that answers two empty lines when nothing matched
RECURSIVE ScanFromDefault(_, _)
ScanFromDefault(lines, i) ==
    IF i > Len(lines)
      THEN [exc |-> "none", val |-> << <<>>, <<>> >>]
    ELSE IF IsMatch(lines[i])
      THEN IF i + 2 <= Len(lines)
             THEN [exc |-> "none", val |-> <<strip(lines[i + 1]), strip(lines[i + 2])>>]
             ELSE [exc |-> "IndexError", val |-> <<>>]
    ELSE ScanFromDefault(lines, i + 1)

\* the for loop of fetch_iss_tle from index i on (1-based)
RECURSIVE ScanFrom(_, _)
ScanFrom(lines, i) ==
    IF i > Len(lines)
      THEN [exc |-> "RuntimeError", val |-> <<>>]
    ELSE IF IsMatch(lines[i])
      THEN IF i + 2 <= Len(lines)
             THEN [exc |-> "none", val |-> <<strip(lines[i + 1]), strip(lines[i + 2])>>]
             ELSE [exc |-> "IndexError", val |-> <<>>]
    ELSE ScanFrom(lines, i + 1)

fetch_iss_tle(resp) ==
    IF resp.kind = "error"
      THEN [exc |-> "RequestException", val |-> <<>>]
      ELSE ScanFrom(resp.lines, 1)

\* x / q rounded to the nearest integer (halves to the even one), as the
\* format specs .4f and .0f round
RoundDiv(x, q) ==
    LET a == IF x < 0 THEN -x ELSE x
        f == a \div q
        r == a % q
        n == IF 2 * r > q \/ (2 * r = q /\ f % 2 = 1) THEN f + 1 ELSE f
    IN  IF x < 0 THEN -n ELSE n

\* the numbers of the console line: Lat {lat:.4f}, Lon {lon:.4f}, Alt {alt_km:.0f}
FormatLog(lat, lon, alt_km) ==
    <<RoundDiv(lat, 10), RoundDiv(lon, 10), RoundDiv(alt_km, 10)>>

\* the LookAt block shared by the live marker and the tour
LookAt(lat, lon, alt_km) ==
    [latitude |-> lat, longitude |-> lon, altitude |-> alt_km,
     range |-> LOOKAT_RANGE, tilt |-> LOOKAT_TILT, heading |-> LOOKAT_HEADING]

\* variant of the document with the point in the stored (lat, lon) order
TrackDocLatFirst(lat, lon, alt_km) ==
    [point |-> [name |-> "ISS", coords |-> << <<lat, lon, alt_km>> >>,
                altitudemode |-> "relativeToGround",
                lookat |-> LookAt(lat, lon, alt_km)],
     link  |-> [name |-> "ISS Tracker", href |-> "track.kml",
                refreshmode |-> "onInterval", refreshinterval |-> REFRESH_INTERVAL]]

\* the document write_track_kml builds
TrackDoc(lat, lon, alt_km) ==
    [point |-> [name |-> "ISS", coords |-> << <<lon, lat, alt_km>> >>,
                altitudemode |-> "relativeToGround",
                lookat |-> LookAt(lat, lon, alt_km)],
     link  |-> [name |-> "ISS Tracker", href |-> "track.kml",
                refreshmode |-> "onInterval", refreshinterval |-> REFRESH_INTERVAL]]

\* variant of the playlist with the newest sample first
RECURSIVE TourPlaylistNewestFirst(_)
TourPlaylistNewestFirst(ps) ==
    IF ps = <<>> THEN <<>>
    ELSE LET p == Head(ps)
         IN  TourPlaylistNewestFirst(Tail(ps))
             \o << [kind |-> "flyto", duration |-> FLYTO_DURATION, mode |-> "bounce",
                    lookat |-> LookAt(p[1], p[2], p[3])],
                   [kind |-> "wait", duration |-> WAIT_DURATION] >>

\* the playlist write_tour_kml builds: the for loop over positions
RECURSIVE TourPlaylist(_)
TourPlaylist(ps) ==
    IF ps = <<>> THEN <<>>
    ELSE LET p == Head(ps)
         IN  << [kind |-> "flyto", duration |-> FLYTO_DURATION, mode |-> "bounce",
                 lookat |-> LookAt(p[1], p[2], p[3])],
                [kind |-> "wait", duration |-> WAIT_DURATION] >>
             \o TourPlaylist(Tail(ps))

TourDoc(ps) == [name |-> "ISS Flight Tour", playlist |-> TourPlaylist(ps)]

\* variant of the comprehension that keeps the stored (lat, lon, alt) order
PathCoordsLatLon(ps) == [k \in 1..Len(ps) |-> <<ps[k][1], ps[k][2], ps[k][3]>>]

\* the comprehension of write_path_kml
PathCoords(ps) == [k \in 1..Len(ps) |-> <<ps[k][2], ps[k][1], ps[k][3]>>]

PathDoc(ps) ==
    [name |-> "ISS Path", coords |-> PathCoords(ps),
     altitudemode |-> "relativeToGround", extrude |-> 1, tessellate |-> 1]

\* a file on disk
Absent == [st |-> "absent"]
Truncated == [st |-> "truncated"]
Written(doc) == [st |-> "written", doc |-> doc]

\* ---------------------------------------------------------------- state
VARIABLES
    pc,         \* position of the main thread
    response,   \* the answer the data source holds for the one GET
    fetches,    \* GETs issued so far
    tle,        \* (line1, line2) of main
    handlers,   \* atexit's callback list, in registration order
    hi,         \* callbacks still to run at exit (index into handlers)
    positions,  \* the global list
    appended,   \* history: the samples in the order they were appended
    ticks,      \* history: iterations whose append and track write completed
    cur,        \* lat, lon, alt_km of the current iteration
    logline,    \* last position line printed
    slept,      \* seconds asked of the last time.sleep
    trackFile, tourFile, pathFile,
    ran,        \* exit callbacks called, in call order
    raised,     \* exit callbacks that raised
    faults,     \* files whose write the environment made fail
    earthArgs,  \* state of the three files when the viewer was started
    exc,        \* exception that left main uncaught
    intAt,      \* history: where each operator interrupt arrived
    exitCode,
    usedTle,    \* the pair last handed to get_sat_position
    trackWrites \* history: calls of write_track_kml started

vars == <<pc, response, fetches, tle, handlers, hi, positions, appended, ticks,
          cur, logline, slept, trackFile, tourFile, pathFile, ran, raised,
          faults, earthArgs, exc, intAt, exitCode, usedTle, trackWrites>>

NoSample == <<>>
NoArgs == <<>>

Init ==
    /\ pc = "fetch"
    /\ response \in Responses
    /\ fetches = 0
    /\ tle = <<>>
    /\ handlers = <<>>
    /\ hi = 0
    /\ positions = <<>>
    /\ appended = <<>>
    /\ ticks = 0
    /\ cur = NoSample
    /\ logline = NoSample
    /\ slept = 0
    /\ trackFile = Absent
    /\ tourFile = Absent
    /\ pathFile = Absent
    /\ ran = <<>>
    /\ raised = {}
    /\ faults = {}
    /\ earthArgs = NoArgs
    /\ exc = "none"
    /\ intAt = <<>>
    /\ exitCode = -1
    /\ usedTle = <<>>
    /\ trackWrites = 0

\* ------------------------------------------------------- interpreter
\* exit status of the interpreter: 0 when main returned, 130 (death by
\* SIGINT) for an uncaught KeyboardInterrupt, 1 for any other exception
ExitStatus(e) ==
    IF e = "none" THEN 0 ELSE IF e = "KeyboardInterrupt" THEN 130 ELSE 1

\* variant in which leaving main skips the registered callbacks
LeaveMainNoCallbacks(e) ==
    /\ pc' = "atexit"
    /\ exc' = e
    /\ hi' = 0

\* main is left (by return or by an uncaught exception e): the interpreter
\* finalizes, and atexit walks its callback list from the last one back
LeaveMain(e) ==
    /\ pc' = "atexit"
    /\ exc' = e
    /\ hi' = Len(handlers)

\* variant in which a raising callback ends the walk
NextCallbackAbort(i, ok) == IF ok THEN i - 1 ELSE 0

\* atexit goes on to the callback registered before the one that just ran,
\* whether or not that one raised (the exception is printed and dropped)
NextCallback(i, ok) == i - 1

PreTry == {"fetch", "reg_tour", "reg_path", "reg_earth"}
InTry == {"resolve", "append", "print", "write_track", "sleep"}

\* --------------------------------------------------------------- main
\* line 91: line1, line2 = fetch_iss_tle()
Fetch ==
    /\ pc = "fetch"
    /\ LET r == fetch_iss_tle(response)
       IN  /\ fetches' = fetches + 1
           /\ response' = Consumed
           /\ IF r.exc = "none"
                THEN /\ tle' = r.val
                     /\ pc' = "reg_tour"
                     /\ UNCHANGED <<exc, hi>>
                ELSE /\ LeaveMain(r.exc)
                     /\ UNCHANGED tle
    /\ UNCHANGED <<handlers, positions, appended, ticks, cur, logline, slept,
                   trackFile, tourFile, pathFile, ran, raised, faults,
                   earthArgs, intAt, exitCode,
                   usedTle, trackWrites>>

\* line 95: atexit.register(write_tour_kml)
RegisterTour ==
    /\ pc = "reg_tour"
    /\ handlers' = Append(handlers, "write_tour_kml")
    /\ pc' = "reg_path"
    /\ UNCHANGED <<response, fetches, tle, hi, positions, appended, ticks, cur,
                   logline, slept, trackFile, tourFile, pathFile, ran, raised,
                   faults, earthArgs, exc, intAt, exitCode,
                   usedTle, trackWrites>>

\* line 96: atexit.register(write_path_kml)
RegisterPath ==
    /\ pc = "reg_path"
    /\ handlers' = Append(handlers, "write_path_kml")
    /\ pc' = "reg_earth"
    /\ UNCHANGED <<response, fetches, tle, hi, positions, appended, ticks, cur,
                   logline, slept, trackFile, tourFile, pathFile, ran, raised,
                   faults, earthArgs, exc, intAt, exitCode,
                   usedTle, trackWrites>>

\* line 97: atexit.register(launch_earth); the try block is entered next
RegisterEarth ==
    /\ pc = "reg_earth"
    /\ handlers' = Append(handlers, "launch_earth")
    /\ pc' = "resolve"
    /\ UNCHANGED <<response, fetches, tle, hi, positions, appended, ticks, cur,
                   logline, slept, trackFile, tourFile, pathFile, ran, raised,
                   faults, earthArgs, exc, intAt, exitCode,
                   usedTle, trackWrites>>

\* variant of the tick that fetches the elements again before resolving
ResolveRefetch ==
    /\ pc = "resolve"
    /\ Len(positions) < MaxTicks
    /\ fetches' = fetches + 1
    /\ usedTle' = tle
    /\ \E s \in Samples : cur' = s
    /\ pc' = "append"
    /\ UNCHANGED <<response, tle, handlers, hi, positions, appended,
                   ticks, logline, slept, trackFile, tourFile, pathFile, ran,
                   raised, faults, earthArgs, exc, intAt, exitCode,
                   trackWrites>>

\* line 101: get_sat_position(line1, line2) returns a sample
Resolve ==
    /\ pc = "resolve"
    /\ Len(positions) < MaxTicks
    /\ usedTle' = tle
    /\ \E s \in Samples : cur' = s
    /\ pc' = "append"
    /\ UNCHANGED <<response, fetches, tle, handlers, hi, positions, appended,
                   ticks, logline, slept, trackFile, tourFile, pathFile, ran,
                   raised, faults, earthArgs, exc, intAt, exitCode,
                   trackWrites>>

\* variant in which the try block catches every exception, not only
\* KeyboardInterrupt
ResolveFailsCaught ==
    /\ pc = "resolve"
    /\ usedTle' = tle
    /\ pc' = "except"
    /\ UNCHANGED <<response, fetches, tle, handlers, hi, positions, appended,
                   ticks, cur, logline, slept, trackFile, tourFile, pathFile,
                   ran, raised, faults, earthArgs, exc, intAt, exitCode,
                   trackWrites>>

\* line 101: get_sat_position raises (bad elements, timescale download);
\* nothing catches it
ResolveFails ==
    /\ pc = "resolve"
    /\ usedTle' = tle
    /\ LeaveMain("ResolveError")
    /\ UNCHANGED <<response, fetches, tle, handlers, positions, appended, ticks,
                   cur, logline, slept, trackFile, tourFile, pathFile, ran,
                   raised, faults, earthArgs, intAt, exitCode,
                   trackWrites>>

\* variant of the append that skips a sample equal to the last one kept
AppendSampleDedup ==
    /\ pc = "append"
    /\ positions' = IF positions # <<>> /\ positions[Len(positions)] = cur
                       THEN positions
                       ELSE Append(positions, cur)
    /\ appended' = Append(appended, cur)
    /\ pc' = "print"
    /\ UNCHANGED <<response, fetches, tle, handlers, hi, ticks, cur, logline,
                   slept, trackFile, tourFile, pathFile, ran, raised, faults,
                   earthArgs, exc, intAt, exitCode,
                   usedTle, trackWrites>>

\* line 102: positions.append((lat, lon, alt_km))
AppendSample ==
    /\ pc = "append"
    /\ positions' = Append(positions, cur)
    /\ appended' = Append(appended, cur)
    /\ pc' = "print"
    /\ UNCHANGED <<response, fetches, tle, handlers, hi, ticks, cur, logline,
                   slept, trackFile, tourFile, pathFile, ran, raised, faults,
                   earthArgs, exc, intAt, exitCode,
                   usedTle, trackWrites>>

\* lines 103-104: the console line of the tick
PrintLine ==
    /\ pc = "print"
    /\ logline' = FormatLog(cur[1], cur[2], cur[3])
    /\ pc' = "write_track"
    /\ UNCHANGED <<response, fetches, tle, handlers, hi, positions, appended,
                   ticks, cur, slept, trackFile, tourFile, pathFile, ran, raised,
                   faults, earthArgs, exc, intAt, exitCode,
                   usedTle, trackWrites>>

\* variant of the call that resolves again and writes that other sample
WriteTrackFreshSample ==
    /\ pc = "write_track"
    /\ \E s \in Samples \ {cur} : trackFile' = Written(TrackDoc(s[1], s[2], s[3]))
    /\ trackWrites' = trackWrites + 1
    /\ ticks' = ticks + 1
    /\ pc' = "sleep"
    /\ UNCHANGED <<response, fetches, tle, handlers, hi, positions, appended,
                   cur, logline, slept, tourFile, pathFile, ran, raised, faults,
                   earthArgs, exc, intAt, exitCode, usedTle>>

\* line 105: write_track_kml(lat, lon, alt_km) saves track.kml
WriteTrack ==
    /\ pc = "write_track"
    /\ trackFile' = Written(TrackDoc(cur[1], cur[2], cur[3]))
    /\ trackWrites' = trackWrites + 1
    /\ ticks' = ticks + 1
    /\ pc' = "sleep"
    /\ UNCHANGED <<response, fetches, tle, handlers, hi, positions, appended,
                   cur, logline, slept, tourFile, pathFile, ran, raised, faults,
                   earthArgs, exc, intAt, exitCode, usedTle>>

\* line 105: kml.save("track.kml") raises OSError; nothing catches it
WriteTrackFails ==
    /\ pc = "write_track"
    /\ trackFile' \in {trackFile, Truncated}
    /\ trackWrites' = trackWrites + 1
    /\ faults' = faults \cup {"track.kml"}
    /\ LeaveMain("OSError")
    /\ UNCHANGED <<response, fetches, tle, handlers, positions, appended, ticks,
                   cur, logline, slept, tourFile, pathFile, ran, raised,
                   earthArgs, intAt, exitCode, usedTle>>

\* variant of the sleep with the interval doubled
SleepLonger ==
    /\ pc = "sleep"
    /\ slept' = 2 * SLEEP_SECONDS
    /\ pc' = "resolve"
    /\ UNCHANGED <<response, fetches, tle, handlers, hi, positions, appended,
                   ticks, cur, logline, trackFile, tourFile, pathFile, ran,
                   raised, faults, earthArgs, exc, intAt, exitCode,
                   usedTle, trackWrites>>

\* line 106: time.sleep(5) returns
Sleep ==
    /\ pc = "sleep"
    /\ slept' = SLEEP_SECONDS
    /\ pc' = "resolve"
    /\ UNCHANGED <<response, fetches, tle, handlers, hi, positions, appended,
                   ticks, cur, logline, trackFile, tourFile, pathFile, ran,
                   raised, faults, earthArgs, exc, intAt, exitCode,
                   usedTle, trackWrites>>

\* Ctrl+C before the try block (lines 90-97): KeyboardInterrupt is uncaught
InterruptBeforeTry ==
    /\ pc \in PreTry
    /\ intAt' = Append(intAt, pc)
    /\ response' = Consumed
    /\ LeaveMain("KeyboardInterrupt")
    /\ UNCHANGED <<fetches, tle, handlers, positions, appended, ticks, cur,
                   logline, slept, trackFile, tourFile, pathFile, ran, raised,
                   faults, earthArgs, exitCode,
                   usedTle, trackWrites>>

\* Ctrl+C inside the try block (lines 100-106), while the statement at pc
\* runs: control goes to line 107. A save cut short leaves track.kml as it
\* was, truncated, or complete.
InterruptInTry ==
    /\ pc \in InTry
    /\ intAt' = Append(intAt, pc)
    /\ trackFile' \in IF pc = "write_track"
                          THEN {trackFile, Truncated,
                                Written(TrackDoc(cur[1], cur[2], cur[3]))}
                          ELSE {trackFile}
    /\ trackWrites' = IF pc = "write_track" THEN trackWrites + 1 ELSE trackWrites
    /\ usedTle' = IF pc = "resolve" THEN tle ELSE usedTle
    /\ slept' = IF pc = "sleep" THEN SLEEP_SECONDS ELSE slept
    /\ pc' = "except"
    /\ UNCHANGED <<response, fetches, tle, handlers, hi, positions, appended,
                   ticks, cur, logline, tourFile, pathFile, ran, raised, faults,
                   earthArgs, exc, exitCode>>

\* variant of the handler that ends with an error status
ExceptBranchExits1 ==
    /\ pc = "except"
    /\ LeaveMain("SystemExit")
    /\ UNCHANGED <<response, fetches, tle, handlers, positions, appended, ticks,
                   cur, logline, slept, trackFile, tourFile, pathFile, ran,
                   raised, faults, earthArgs, intAt, exitCode,
                   usedTle, trackWrites>>

\* lines 107-108: the handler prints and main returns
ExceptBranch ==
    /\ pc = "except"
    /\ LeaveMain("none")
    /\ UNCHANGED <<response, fetches, tle, handlers, positions, appended, ticks,
                   cur, logline, slept, trackFile, tourFile, pathFile, ran,
                   raised, faults, earthArgs, intAt, exitCode,
                   usedTle, trackWrites>>

\* a second Ctrl+C while line 108 prints: uncaught
InterruptInExcept ==
    /\ pc = "except"
    /\ intAt' = Append(intAt, pc)
    /\ LeaveMain("KeyboardInterrupt")
    /\ UNCHANGED <<response, fetches, tle, handlers, positions, appended, ticks,
                   cur, logline, slept, trackFile, tourFile, pathFile, ran,
                   raised, faults, earthArgs, exitCode,
                   usedTle, trackWrites>>

\* ------------------------------------------------------ exit callbacks
\* variant of write_tour_kml that reads the last sample before the loop and
\* so raises IndexError on an empty list
WriteTourKmlNeedsSample ==
    /\ pc = "atexit" /\ hi > 0 /\ handlers[hi] = "write_tour_kml"
    /\ ran' = Append(ran, "write_tour_kml")
    /\ \E ok \in BOOLEAN :
          /\ tourFile' \in IF positions = <<>> THEN {tourFile}
                            ELSE IF ok THEN {Written(TourDoc(positions))}
                            ELSE {tourFile, Truncated}
          /\ faults' = IF ok \/ positions = <<>> THEN faults
                                                 ELSE faults \cup {"tour.kml"}
          /\ raised' = IF ok /\ positions # <<>> THEN raised
                                                 ELSE raised \cup {"write_tour_kml"}
          /\ hi' = NextCallback(hi, ok /\ positions # <<>>)
    /\ UNCHANGED <<pc, response, fetches, tle, handlers, positions, appended,
                   ticks, cur, logline, slept, trackFile, pathFile, earthArgs,
                   exc, intAt, exitCode,
                   usedTle, trackWrites>>

\* lines 53-65: write_tour_kml, called by atexit
WriteTourKml ==
    /\ pc = "atexit" /\ hi > 0 /\ handlers[hi] = "write_tour_kml"
    /\ ran' = Append(ran, "write_tour_kml")
    /\ \E ok \in BOOLEAN :
          /\ tourFile' \in IF ok THEN {Written(TourDoc(positions))}
                                 ELSE {tourFile, Truncated}
          /\ faults' = IF ok THEN faults ELSE faults \cup {"tour.kml"}
          /\ raised' = IF ok THEN raised ELSE raised \cup {"write_tour_kml"}
          /\ hi' = NextCallback(hi, ok)
    /\ UNCHANGED <<pc, response, fetches, tle, handlers, positions, appended,
                   ticks, cur, logline, slept, trackFile, pathFile, earthArgs,
                   exc, intAt, exitCode,
                   usedTle, trackWrites>>

\* variant of write_path_kml that empties the list once it is saved
WritePathKmlClears ==
    /\ pc = "atexit" /\ hi > 0 /\ handlers[hi] = "write_path_kml"
    /\ ran' = Append(ran, "write_path_kml")
    /\ \E ok \in BOOLEAN :
          /\ pathFile' \in IF ok THEN {Written(PathDoc(positions))}
                                 ELSE {pathFile, Truncated}
          /\ positions' = IF ok THEN <<>> ELSE positions
          /\ faults' = IF ok THEN faults ELSE faults \cup {"path.kml"}
          /\ raised' = IF ok THEN raised ELSE raised \cup {"write_path_kml"}
          /\ hi' = NextCallback(hi, ok)
    /\ UNCHANGED <<pc, response, fetches, tle, handlers, appended,
                   ticks, cur, logline, slept, trackFile, tourFile, earthArgs,
                   exc, intAt, exitCode, usedTle, trackWrites>>

\* lines 67-76: write_path_kml, called by atexit
WritePathKml ==
    /\ pc = "atexit" /\ hi > 0 /\ handlers[hi] = "write_path_kml"
    /\ ran' = Append(ran, "write_path_kml")
    /\ \E ok \in BOOLEAN :
          /\ pathFile' \in IF ok THEN {Written(PathDoc(positions))}
                                 ELSE {pathFile, Truncated}
          /\ faults' = IF ok THEN faults ELSE faults \cup {"path.kml"}
          /\ raised' = IF ok THEN raised ELSE raised \cup {"write_path_kml"}
          /\ hi' = NextCallback(hi, ok)
    /\ UNCHANGED <<pc, response, fetches, tle, handlers, positions, appended,
                   ticks, cur, logline, slept, trackFile, tourFile, earthArgs,
                   exc, intAt, exitCode,
                   usedTle, trackWrites>>

\* lines 78-87: launch_earth, called by atexit; the viewer gets the three
\* files as they are now; subprocess.call raises when `open` is missing
LaunchEarth ==
    /\ pc = "atexit" /\ hi > 0 /\ handlers[hi] = "launch_earth"
    /\ ran' = Append(ran, "launch_earth")
    /\ \E ok \in BOOLEAN :
          /\ earthArgs' = IF ok THEN <<trackFile.st, tourFile.st, pathFile.st>>
                                ELSE earthArgs
          /\ raised' = IF ok THEN raised ELSE raised \cup {"launch_earth"}
          /\ hi' = NextCallback(hi, ok)
    /\ UNCHANGED <<pc, response, fetches, tle, handlers, positions, appended,
                   ticks, cur, logline, slept, trackFile, tourFile, pathFile,
                   faults, exc, intAt, exitCode,
                   usedTle, trackWrites>>

\* every callback has run: the process ends with its exit status
Terminate ==
    /\ pc = "atexit" /\ hi = 0
    /\ pc' = "done"
    /\ exitCode' = ExitStatus(exc)
    /\ UNCHANGED <<response, fetches, tle, handlers, hi, positions, appended,
                   ticks, cur, logline, slept, trackFile, tourFile, pathFile,
                   ran, raised, faults, earthArgs, exc, intAt,
                   usedTle, trackWrites>>

Next ==
    \/ Fetch
    \/ RegisterTour
    \/ RegisterPath
    \/ RegisterEarth
    \/ Resolve
    \/ ResolveFails
    \/ AppendSample
    \/ PrintLine
    \/ WriteTrack
    \/ WriteTrackFails
    \/ Sleep
    \/ InterruptBeforeTry
    \/ InterruptInTry
    \/ ExceptBranch
    \/ InterruptInExcept
    \/ WriteTourKml
    \/ WritePathKml
    \/ LaunchEarth
    \/ Terminate

Spec == Init /\ [][Next]_vars

\* ============================================================ properties
EXPORTERS == {"write_tour_kml", "write_path_kml"}
CLEANUP == EXPORTERS \cup {"launch_earth"}

FileOf(h) == IF h = "write_tour_kml" THEN "tour.kml" ELSE "path.kml"

\* how often callback h was called
Count(h) == Cardinality({ i \in 1..Len(ran) : ran[i] = h })

IsPrefix(s, t) == Len(s) <= Len(t) /\ s = SubSeq(t, 1, Len(s))

\* the first operator interrupt arrived inside the try block
InterruptedInRunning == intAt # <<>> /\ intAt[1] \in InTry

\* one interrupt, inside the try block, and nothing else went wrong
NormalStop == Len(intAt) = 1 /\ intAt[1] \in InTry

\* the stop arrived between two ticks: in the sleep, or in the next
\* resolution before anything was appended
StoppedBetweenTicks == intAt # <<>> /\ intAt[1] \in {"sleep", "resolve"}

\* C1: after an operator interrupt with all three callbacks registered,
\* the cleanup steps are called in the order write_tour_kml,
\* write_path_kml, launch_earth, so the viewer starts only once both
\* tour.kml and path.kml have been written.
C1_ShutdownOrder ==
    (intAt # <<>> /\ Len(handlers) = 3)
        => /\ IsPrefix(ran, <<"write_tour_kml", "write_path_kml", "launch_earth">>)
           /\ (Count("launch_earth") > 0
                 => Count("write_tour_kml") > 0 /\ Count("write_path_kml") > 0)

\* C2: an interrupt arriving anywhere inside the try block leads to each
\* of the three cleanup steps being called exactly once: never twice on
\* the way, and once each when the process has ended.
C2_CleanupExactlyOnce ==
    InterruptedInRunning
        => /\ \A h \in CLEANUP : Count(h) <= 1
           /\ (pc = "done" => \A h \in CLEANUP : Count(h) = 1)

C2_Witness ==
    /\ pc = "done"
    /\ intAt = <<"write_track">>
    /\ trackFile = Truncated
    /\ \A h \in CLEANUP : Count(h) = 1

\* C3: whenever an operator interrupt ended the run, wherever it arrived,
\* all three cleanup steps have run by the time the process has ended.
C3_InterruptAlwaysCleansUp ==
    (pc = "done" /\ intAt # <<>>) => \A h \in CLEANUP : Count(h) >= 1

\* C4: a written tour.kml holds exactly one fly-to/wait pair per appended
\* sample, the k-th pair looking at the k-th appended sample; when the stop
\* arrived between ticks that is one pair per completed tick.
C4_TourMatchesSamples ==
    tourFile.st = "written"
        => LET pl == tourFile.doc.playlist
           IN  /\ Len(pl) = 2 * Len(appended)
               /\ \A k \in 1..Len(appended) :
                     /\ pl[2 * k - 1].kind = "flyto"
                     /\ pl[2 * k - 1].lookat.latitude = appended[k][1]
                     /\ pl[2 * k - 1].lookat.longitude = appended[k][2]
                     /\ pl[2 * k - 1].lookat.altitude = appended[k][3]
                     /\ pl[2 * k].kind = "wait"
               /\ (StoppedBetweenTicks => Len(pl) = 2 * ticks)

C4_Witness ==
    /\ tourFile.st = "written"
    /\ intAt = <<"sleep">>
    /\ ticks = 2
    /\ Len(appended) = 2
    /\ appended[1] # appended[2]

\* C5: a written path.kml holds one line whose k-th coordinate tuple is
\* (longitude, latitude, altitude) of the k-th appended sample, and no
\* other tuple; when the stop arrived between ticks that is one tuple per
\* completed tick.
C5_PathMatchesSamples ==
    pathFile.st = "written"
        => LET cs == pathFile.doc.coords
           IN  /\ Len(cs) = Len(appended)
               /\ \A k \in 1..Len(appended) :
                     /\ cs[k][1] = appended[k][2]
                     /\ cs[k][2] = appended[k][1]
                     /\ cs[k][3] = appended[k][3]
               /\ (StoppedBetweenTicks => Len(cs) = ticks)

C5_Witness ==
    /\ pathFile.st = "written"
    /\ intAt = <<"resolve">>
    /\ ticks = 2
    /\ Len(appended) = 2
    /\ appended[1] # appended[2]

\* C6: when an interrupt inside the try block ends the run before any
\* sample was appended, both exporters still run, neither raises unless
\* the disk refused its write, and each file the disk accepted holds the
\* empty playlist, respectively the empty line.
C6_EmptyStopStillExports ==
    (pc = "done" /\ InterruptedInRunning /\ appended = <<>>)
        => /\ \A h \in EXPORTERS :
                 /\ Count(h) = 1
                 /\ (h \in raised => FileOf(h) \in faults)
           /\ ("tour.kml" \notin faults
                 => /\ tourFile.st = "written"
                    /\ tourFile.doc.playlist = <<>>)
           /\ ("path.kml" \notin faults
                 => /\ pathFile.st = "written"
                    /\ pathFile.doc.coords = <<>>)

C6_Witness ==
    /\ pc = "done"
    /\ intAt = <<"resolve">>
    /\ positions = <<>>
    /\ faults = {}
    /\ raised = {}
    /\ tourFile = Written(TourDoc(<<>>))
    /\ pathFile = Written(PathDoc(<<>>))

\* no line of the feed passes the test of the lookup (trimmed, it begins
\* with the name)
NoMatchingLine(lines) == \A i \in 1..Len(lines) : ~IsMatch(lines[i])

\* a line that is the entry header of the satellite, and nothing more
IsHeader(line) == strip(line) = <<ISS_NAME>>

FetchErrors == {"RuntimeError", "IndexError", "RequestException"}

NoArtifact == trackFile = Absent /\ tourFile = Absent /\ pathFile = Absent

\* C7: a fetch whose answer has no line matching "ISS (ZARYA)" ends in the
\* lookup's RuntimeError with no callback registered; from then on no tick
\* ran, no sample exists, none of the three files was created, no cleanup
\* step was called, and the process ends with a non-zero status.
C7_LookupFailureIsFatal ==
    /\ [][ (pc = "fetch" /\ fetches' = fetches + 1
              /\ response.kind = "text" /\ NoMatchingLine(response.lines))
           => (exc' = "RuntimeError" /\ pc' = "atexit" /\ hi' = 0) ]_vars
    /\ [](exc = "RuntimeError"
            => /\ pc \in {"atexit", "done"}
               /\ handlers = <<>> /\ ran = <<>>
               /\ ticks = 0 /\ appended = <<>> /\ positions = <<>>
               /\ NoArtifact
               /\ (pc = "done" => exitCode \notin {-1, 0}))

C7_Witness ==
    /\ pc = "done"
    /\ exc = "RuntimeError"
    /\ exitCode = 1
    /\ ran = <<>>
    /\ NoArtifact

\* C8 (as stated): once an exporter has raised on its file write, no
\* callback due after it is called.
C8_WriteFailureAbortsRest ==
    pc = "done"
        => \A i \in 1..Len(ran) :
              (ran[i] \in EXPORTERS /\ ran[i] \in raised) => Len(ran) = i

\* C8 (amended): a callback that raises does not stop the walk: at every
\* point of the exit sequence the callbacks called so far are exactly the
\* last registered ones, in reverse registration order, and at the end
\* every registered callback has been called, whichever of them raised.
C8_WriteFailureIsolated ==
    pc \in {"atexit", "done"}
        => /\ Len(ran) = Len(handlers) - hi
           /\ \A k \in 1..Len(ran) : ran[k] = handlers[Len(handlers) + 1 - k]
           /\ (pc = "done" => Len(ran) = Len(handlers))

C8_Witness ==
    /\ pc = "done"
    /\ "write_path_kml" \in raised
    /\ "path.kml" \in faults
    /\ ran = <<"launch_earth", "write_path_kml", "write_tour_kml">>
    /\ tourFile.st = "written"

\* C9: when the answer holds exactly one header line "ISS (ZARYA)" and the
\* two lines after it are data lines, the lookup returns those two lines,
\* trimmed, and main goes on with them.
C9_LookupReturnsHeaderLines ==
    [][ (pc = "fetch" /\ fetches' = fetches + 1 /\ response.kind = "text")
        => LET lines == response.lines
           IN  \A i \in 1..Len(lines) :
                  ( /\ IsHeader(lines[i])
                    /\ \A j \in 1..Len(lines) : IsHeader(lines[j]) => j = i
                    /\ i + 2 <= Len(lines)
                    /\ ~IsMatch(lines[i + 1])
                    /\ ~IsMatch(lines[i + 2]) )
                  => /\ pc' = "reg_tour"
                     /\ tle' = <<strip(lines[i + 1]), strip(lines[i + 2])>> ]_vars

\* C10: the exit status is set only when every callback has been called;
\* a run stopped by one interrupt inside the try block ends with status 0
\* and all three cleanup steps called; a run whose fetch failed ends with
\* a non-zero status and neither tour.kml nor path.kml.
C10_ExitCodes ==
    /\ (exitCode # -1 => pc = "done" /\ hi = 0 /\ Len(ran) = Len(handlers))
    /\ (pc = "done" /\ NormalStop
          => exitCode = 0 /\ \A h \in CLEANUP : Count(h) = 1)
    /\ (pc = "done" /\ exc \in FetchErrors
          => /\ exitCode \notin {-1, 0}
             /\ tourFile = Absent /\ pathFile = Absent
             /\ ran = <<>>)

C10_Witness ==
    /\ pc = "done"
    /\ NormalStop
    /\ exitCode = 0
    /\ Len(appended) = 1
    /\ ran = <<"launch_earth", "write_path_kml", "write_tour_kml">>

\* the one coordinate tuple of a written track.kml
TrackPoint == trackFile.doc.point.coords[1]

\* (longitude, latitude, altitude) of a stored (lat, lon, alt) sample
KmlOrder(p) == <<p[2], p[1], p[3]>>

\* a printed number n (in printed units) is the value v (in sample units)
\* to the printed precision
Prints(n, v) == 10 * n - v <= 5 /\ v - 10 * n <= 5

\* C11: whenever the loop sleeps, track.kml was just written and the
\* refresh interval it declares is the interval slept; and no written
\* track.kml declares another interval than the last one slept.
C11_RefreshEqualsSleep ==
    /\ []((trackFile.st = "written" /\ slept # 0)
            => /\ trackFile.doc.link.refreshmode = "onInterval"
               /\ trackFile.doc.link.refreshinterval = slept)
    /\ [][ (pc = "sleep" /\ slept' # slept)
           => /\ trackFile.st = "written"
              /\ trackFile' = trackFile
              /\ slept' = trackFile.doc.link.refreshinterval ]_vars

C11_Witness ==
    /\ pc = "resolve"
    /\ ticks = 1
    /\ slept = SLEEP_SECONDS
    /\ trackFile.st = "written"
    /\ trackFile.doc.link.refreshinterval = SLEEP_SECONDS

\* C12: a written track.kml holds one tuple, (longitude, latitude,
\* altitude) of an appended sample, with the look-at block on the same
\* point; right after the write of a tick that sample is the one of the
\* tick, the last one appended, and the console line of the tick shows its
\* latitude, longitude and altitude to the printed precision.
C12_TrackMatchesSample ==
    /\ trackFile.st = "written"
         => /\ Len(trackFile.doc.point.coords) = 1
            /\ \E k \in 1..Len(appended) : TrackPoint = KmlOrder(appended[k])
            /\ trackFile.doc.point.lookat.longitude = TrackPoint[1]
            /\ trackFile.doc.point.lookat.latitude = TrackPoint[2]
            /\ trackFile.doc.point.lookat.altitude = TrackPoint[3]
    /\ pc = "sleep"
         => /\ trackFile.st = "written"
            /\ TrackPoint = KmlOrder(cur)
            /\ appended[Len(appended)] = cur
            /\ Prints(logline[1], TrackPoint[2])
            /\ Prints(logline[2], TrackPoint[1])
            /\ Prints(logline[3], TrackPoint[3])

C12_Witness ==
    /\ pc = "sleep"
    /\ ticks = 2
    /\ appended[1] # cur
    /\ TrackPoint = <<4512342, -3098766, 4106>>
    /\ logline = <<-309877, 451234, 411>>

\* C13: the list always equals the samples in the order they were
\* acquired, every step leaves it unchanged or adds the sample of the tick
\* at its end, and the append step always adds (a sample equal to the
\* previous one is kept).
C13_AppendOnly ==
    /\ [](positions = appended)
    /\ [][ /\ \/ positions' = positions
              \/ (pc = "append" /\ positions' = Append(positions, cur))
           /\ (pc = "append" /\ pc' = "print")
                => positions' = Append(positions, cur) ]_vars

C13_Witness ==
    /\ Len(positions) = 3
    /\ positions[1] = positions[2]
    /\ positions[2] # positions[3]

\* C14: from the moment the loop is left no step changes the list, and a
\* written tour.kml and a written path.kml describe the same samples: the
\* list as it is, pair k of the tour looking at tuple k of the path.
C14_FrozenAfterLoop ==
    /\ [][ (pc \in {"except", "atexit", "done"}) => positions' = positions ]_vars
    /\ []((tourFile.st = "written" /\ pathFile.st = "written")
            => LET pl == tourFile.doc.playlist
                   cs == pathFile.doc.coords
               IN  /\ Len(cs) = Len(positions)
                   /\ Len(pl) = 2 * Len(cs)
                   /\ \A k \in 1..Len(cs) :
                         /\ cs[k] = KmlOrder(positions[k])
                         /\ pl[2 * k - 1].lookat.longitude = cs[k][1]
                         /\ pl[2 * k - 1].lookat.latitude = cs[k][2]
                         /\ pl[2 * k - 1].lookat.altitude = cs[k][3])

C14_Witness ==
    /\ pc = "done"
    /\ intAt = <<"print">>
    /\ Len(positions) = 2
    /\ positions[1] # positions[2]
    /\ tourFile.st = "written"
    /\ pathFile.st = "written"

\* C15: the elements are fetched at most once, and exactly once before
\* anything of a tick happens; only the fetch step, before the first
\* tick, counts a fetch; once set the pair never changes, and every
\* position resolution is handed that pair.
C15_FetchedOnce ==
    /\ [](/\ fetches <= 1
          /\ (pc \in InTry \/ appended # <<>> \/ usedTle # <<>>)
                => (fetches = 1 /\ tle # <<>>)
          /\ usedTle # <<>> => usedTle = tle)
    /\ [][ /\ tle # <<>> => tle' = tle
           /\ fetches' # fetches
                => (pc = "fetch" /\ appended = <<>> /\ usedTle = <<>>) ]_vars

C15_Witness ==
    /\ pc = "append"
    /\ ticks = 2
    /\ fetches = 1
    /\ usedTle = tle
    /\ tle # <<>>

\* C16: the list holds as many samples as track writes were started, or
\* one more; a written track.kml shows the last or the last but one sample
\* of the list; a written tour.kml or path.kml holds at most one sample
\* more than track writes were started.
C16_AppendBeforeTrackWrite ==
    /\ Len(positions) - trackWrites \in {0, 1}
    /\ trackFile.st = "written"
         => \E k \in 1..Len(positions) :
               /\ k >= Len(positions) - 1
               /\ TrackPoint = KmlOrder(positions[k])
    /\ tourFile.st = "written"
         => Len(tourFile.doc.playlist) <= 2 * (trackWrites + 1)
    /\ pathFile.st = "written"
         => Len(pathFile.doc.coords) <= trackWrites + 1

C16_Witness ==
    /\ pc = "done"
    /\ intAt = <<"print">>
    /\ Len(positions) = 2
    /\ trackWrites = 1
    /\ trackFile.st = "written"
    /\ TrackPoint = KmlOrder(positions[1])
    /\ tourFile.st = "written"
    /\ Len(tourFile.doc.playlist) = 4

LoopErrors == {"ResolveError", "OSError"}

\* C17: a step that leaves the try block without an interrupt is a failed
\* resolution or a failed track write: it leaves main with that error
\* uncaught and all three callbacks due. Such a run took no interrupt
\* branch, calls each cleanup step once, ends with a non-zero status, and
\* its exports hold the samples appended so far.
C17_LoopFailureStillCleansUp ==
    /\ [][ (pc \in InTry /\ pc' \notin InTry /\ intAt' = intAt)
           => /\ pc \in {"resolve", "write_track"}
              /\ pc' = "atexit"
              /\ exc' \in LoopErrors
              /\ hi' = 3 ]_vars
    /\ [](exc \in LoopErrors
            => /\ intAt = <<>>
               /\ pc \in {"atexit", "done"}
               /\ \A h \in CLEANUP : Count(h) <= 1
               /\ tourFile.st = "written"
                    => Len(tourFile.doc.playlist) = 2 * Len(appended)
               /\ pathFile.st = "written"
                    => Len(pathFile.doc.coords) = Len(appended)
               /\ pc = "done"
                    => /\ exitCode \notin {-1, 0}
                       /\ \A h \in CLEANUP : Count(h) = 1)

C17_Witness ==
    /\ pc = "done"
    /\ exc = "OSError"
    /\ exitCode = 1
    /\ Len(appended) = 2
    /\ \A h \in CLEANUP : Count(h) = 1
    /\ tourFile.st = "written"
    /\ Len(tourFile.doc.playlist) = 4

====
